---- MODULE Spec2Model ----
(***************************************************************************)
(* A model of CppInject: ServiceCollection::ServiceProvider (the root      *)
(* provider), its ScopedServiceProvider scopes, the once-cell              *)
(* ConcurrentService and the static getService that materializes service   *)
(* instances (ServiceCollection.h).                                        *)
(*                                                                         *)
(* Every thread runs a call stack of frames.  One frame is one activation  *)
(* of the static ScopedServiceProvider::getService or of a getServices     *)
(* loop; a factory that resolves its dependencies pushes further frames.   *)
(***************************************************************************)
EXTENDS Integers, Sequences, FiniteSets, Bags, TLC

\* ------------------------------------------------------------------ bounds
NumThreads == 2
MaxScopes == 2
MaxOps == 2
MaxAdds == 1

Threads == 1..NumThreads
NoThread == 0
Root == 0
Scopes == 1..MaxScopes
Second == MaxScopes + 1
Providers == {Root, Second}
Owners == {Root} \cup Scopes \cup {Second}

\* The ServiceProvider an owner is or, for a scope, was created by; the
\* scopes of the model are the first provider's.
Provider(o) == IF o \in Scopes THEN Root ELSE o
NoOwner == -1

\* ------------------------------------------------------------------ values
\* The address of a service object: the slot it was made for (owner NoOwner
\* for a Transient), and which run of that slot's factory made it (0: made by
\* client code before registration).  Addresses only need to be distinct.
Address(owner, key, idx, call) == <<owner, key, idx, call>>
Null == Address(NoOwner, "", 0, 0)

\* A std::any as it travels through the container.
Absent == [tag |-> "empty", inst |-> Null, elems |-> <<>>]
SharedPtr(id) == [tag |-> "shared_ptr", inst |-> id, elems |-> <<>>]
RefWrapper(id) == [tag |-> "reference_wrapper", inst |-> id, elems |-> <<>>]
Vector(s) == [tag |-> "vector", inst |-> Null, elems |-> s]
Exception(what) == [tag |-> what, inst |-> Null, elems |-> <<>>]

\* ServiceCollection::ServiceDescription.  deps is the argument list the
\* factory resolves from its provider, existing the shared_ptr the factory
\* closure captured (Null: none).
ServiceDescription(type, deps, existing) ==
    [type |-> type, deps |-> deps, existing |-> existing]
One(key) == [all |-> FALSE, key |-> key]
All(key) == [all |-> TRUE, key |-> key]
Singleton(deps) == ServiceDescription("Singleton", deps, Null)
Scoped(deps) == ServiceDescription("Scoped", deps, Null)
Transient(deps) == ServiceDescription("Transient", deps, Null)
Existing(id) == ServiceDescription("Singleton", <<>>, id)

\* make_shared<Service1>() in client code, before addSingleton(existing).
ExistingAddress == Address(NoOwner, "E", 1, 0)

\* The key no registry registers.
Unregistered == "U"

\* ------------------------------------------------------------- registries
\* D -> C -> B -> A, all of one lifetime (DestructorTestClass0..3).
ChainRegistry(lifetime) ==
    [k \in {"A", "B", "C", "D"} |->
        CASE k = "A" -> <<ServiceDescription(lifetime, <<>>, Null)>>
          [] k = "B" -> <<ServiceDescription(lifetime, <<One("A")>>, Null)>>
          [] k = "C" -> <<ServiceDescription(lifetime, <<One("B")>>, Null)>>
          [] k = "D" -> <<ServiceDescription(lifetime, <<One("C")>>, Null)>>]

\* One interface registered with descriptors of different lifetimes.
MixedRegistry ==
    [k \in {"I", "J"} |->
        CASE k = "I" -> <<Scoped(<<>>), Singleton(<<>>)>>
          [] k = "J" -> <<Singleton(<<>>), Scoped(<<>>)>>]

\* Transient services with scoped and singleton dependencies, and a
\* singleton with a transient dependency.
TransientRegistry ==
    [k \in {"L", "G", "sp_T", "sp_W", "H"} |->
        CASE k = "L" -> <<Scoped(<<>>)>>
          [] k = "G" -> <<Singleton(<<>>)>>
          [] k = "sp_T" -> <<Transient(<<One("L"), One("G")>>)>>
          [] k = "sp_W" -> <<Transient(<<One("sp_T")>>)>>
          [] k = "H" -> <<Singleton(<<One("sp_T")>>)>>]

\* A service whose constructor needs a service nobody registered: the
\* any_cast of the empty std::any throws inside the factory.
FailingRegistry ==
    [k \in {"F", "K", "N"} |->
        CASE k = "F" -> <<Singleton(<<One(Unregistered)>>)>>
          [] k = "K" -> <<Singleton(<<One("F")>>)>>
          [] k = "N" -> <<Scoped(<<One(Unregistered)>>)>>]

\* Three implementations of one interface, a consumer of the whole vector,
\* and an existing instance registered as a singleton.
MultiRegistry ==
    [k \in {"M", "V", "E"} |->
        CASE k = "M" -> <<Singleton(<<>>), Singleton(<<>>), Singleton(<<>>)>>
          [] k = "V" -> <<Scoped(<<All("M")>>)>>
          [] k = "E" -> <<Existing(ExistingAddress)>>]

\* Three Scoped and three Transient implementations of one interface each.
TripleRegistry ==
    [k \in {"Q", "sp_P"} |->
        CASE k = "Q" -> <<Scoped(<<>>), Scoped(<<>>), Scoped(<<>>)>>
          [] k = "sp_P" -> <<Transient(<<>>), Transient(<<>>), Transient(<<>>)>>]

\* A Singleton whose constructor takes a Scoped service.
CaptiveRegistry ==
    [k \in {"L", "R"} |->
        CASE k = "L" -> <<Scoped(<<>>)>>
          [] k = "R" -> <<Singleton(<<One("L")>>)>>]

\* A Singleton the container constructs and one that client code made.
TwinRegistry ==
    [k \in {"G", "E"} |->
        CASE k = "G" -> <<Singleton(<<>>)>>
          [] k = "E" -> <<Existing(ExistingAddress)>>]

\* X -> Y, both of one lifetime.
PairRegistry(lifetime) ==
    [k \in {"X", "Y"} |->
        CASE k = "Y" -> <<ServiceDescription(lifetime, <<>>, Null)>>
          [] k = "X" -> <<ServiceDescription(lifetime, <<One("Y")>>, Null)>>]

\* One service of each lifetime, none with a dependency.
PlainRegistry ==
    [k \in {"G", "L", "sp_T"} |->
        CASE k = "G" -> <<Singleton(<<>>)>>
          [] k = "L" -> <<Scoped(<<>>)>>
          [] k = "sp_T" -> <<Transient(<<>>)>>]

\* A run: the registry the provider is built from, the number of client
\* threads that call it, the number of calls they make in all, and whether
\* the ServiceCollection outlives the provider.  The registries with long
\* call chains are run from one thread, the short ones from every thread,
\* the one without dependencies for one call more.
Run(registry, clients, budget, collection) ==
    [registry |-> registry, clients |-> clients, budget |-> budget,
     collection |-> collection, providers |-> 1, additions |-> 0]

\* The run in which client code goes on registering services after build().
Growing(run) == [run EXCEPT !.additions = MaxAdds]

\* The run in which client code calls build() a second time.
Twice(run) == [run EXCEPT !.providers = 2]

Runs ==
    {Run(ChainRegistry("Singleton"), 1, MaxOps, TRUE),
     Run(ChainRegistry("Scoped"), 1, MaxOps, TRUE),
     Run(TransientRegistry, 1, MaxOps, TRUE),
     Run(MultiRegistry, 1, MaxOps, TRUE),
     Run(MultiRegistry, 1, MaxOps, FALSE),
     Twice(Run(TwinRegistry, 1, MaxOps, TRUE)),
     Growing(Run(TwinRegistry, 1, MaxOps, TRUE)),
     Run(TripleRegistry, 1, MaxOps, TRUE),
     Run(CaptiveRegistry, 1, MaxOps, TRUE),
     Run(PlainRegistry, 1, MaxOps + 1, TRUE),
     Run(PairRegistry("Singleton"), NumThreads, MaxOps, TRUE),
     Run(PairRegistry("Scoped"), NumThreads, MaxOps, TRUE),
     Run(MixedRegistry, NumThreads, MaxOps, TRUE),
     Run(FailingRegistry, NumThreads, MaxOps, TRUE)}

\* ------------------------------------------------------------------- state
VARIABLES
    clients,                    \* the number of client threads of this run
    budget,                     \* the number of client calls of this run
    providers,                  \* the number of providers client code builds
    additions,                  \* the registrations client code still adds
    registrations,              \* ServiceCollection::_factories
    collection,                 \* the ServiceCollection (and with it client
                                \* code's pointers to the existing instances
                                \* it registered) outlives the provider
    _factories,                 \* ServiceProvider::_factories (const)
    alive,                      \* per owner: "none", "alive", "destroying", "destroyed"
    _instances,                 \* per owner: type key -> ConcurrentService[]
    _initializationOrder,       \* per owner: vector of std::any
    _instancesMutex,            \* per owner: the thread holding it, or NoThread
    _initializationOrderMutex,  \* per owner: the thread holding it, or NoThread
    stack,                      \* per thread: its call stack, innermost last
    heap,                       \* address -> the service object made there
    destroyed,                  \* addresses in the order their destructors ran
    returned,                   \* bag of the results handed to client code
    callers,                    \* the threads that have called the container
    served,                     \* bag of what the static getService returned
    teardownLog,                \* per owner: its log when its destructor began
    readyOrder,                 \* per owner: the instances in the order of their set_value
    factoryCalls                \* <<owner, key, index>> -> times create ran

vars ==
    <<clients, budget, providers, additions, registrations, collection, _factories, alive, _instances, _initializationOrder, _instancesMutex,
      _initializationOrderMutex, stack, heap, destroyed, returned,
      callers, served, teardownLog, readyOrder, factoryCalls>>

\* ConcurrentService: initialized, and the promise's shared state.
ConcurrentService == [initialized |-> FALSE, value |-> Absent]

EmptyMap == [k \in {} |-> <<>>]

\* The objects client code made and registered as existing instances.
ExistingObjects(reg) ==
    UNION {{reg[k][i].existing : i \in DOMAIN reg[k]} : k \in DOMAIN reg}
        \ {Null}

\* ServiceCollection::build() and the ServiceProvider constructor.
InitWith(runs) ==
    /\ \E run \in runs :
        /\ _factories = run.registry
        /\ clients = run.clients
        /\ budget = run.budget
        /\ collection = run.collection
        /\ providers = run.providers
        /\ additions = run.additions
        /\ registrations = run.registry
    /\ alive = [o \in Owners |-> IF o = Root THEN "alive" ELSE "none"]
    /\ _instances = [o \in Owners |-> EmptyMap]
    /\ _initializationOrder = [o \in Owners |-> <<>>]
    /\ _instancesMutex = [o \in Owners |-> NoThread]
    /\ _initializationOrderMutex = [o \in Owners |-> NoThread]
    /\ stack = [t \in Threads |-> <<>>]
    /\ heap = [a \in ExistingObjects(_factories) |->
                  [ctx |-> NoOwner, args |-> <<>>]]
    /\ destroyed = <<>>
    /\ returned = EmptyBag
    /\ callers = {}
    /\ served = EmptyBag
    /\ teardownLog = [o \in Owners |-> <<>>]
    /\ readyOrder = [o \in Owners |-> <<>>]
    /\ factoryCalls = [x \in {} |-> 0]

Init == InitWith(Runs)

\* ----------------------------------------------------------------- helpers
Top(t) == stack[t][Len(stack[t])]
Idle(t) == stack[t] = <<>>
Busy == {t \in Threads : ~Idle(t)}

\* _factories.find(type) != _factories.end()
Find(type) == type \in DOMAIN _factories

\* factories.second.at(index)
Desc(key, idx) == _factories[key][idx]
CachedSingleton(desc) == desc.type = "Singleton"

Cached(desc) == desc.type = "Singleton" \/ desc.type = "Scoped"

\* An activation: got collects what its calls returned (the constructor
\* arguments of a factory, the vector of a getServices loop); call numbers
\* the run of the factory it is in (0: not in one).
Frame(fn, owner, ctx, key, idx, pc) ==
    [fn |-> fn, owner |-> owner, ctx |-> ctx, key |-> key, idx |-> idx,
     pc |-> pc, got |-> <<>>, call |-> 0]

\* Entry into the static getService: the lifetime test of its first line.
StaticGetServiceShared(owner, ctx, key, idx) ==
    Frame("getService", IF owner = Second THEN Root ELSE owner, ctx, key, idx,
          IF Cached(Desc(key, idx)) THEN "lock" ELSE "create")

StaticGetService(owner, ctx, key, idx) ==
    Frame("getService", owner, ctx, key, idx,
          IF Cached(Desc(key, idx)) THEN "lock" ELSE "create")

\* ScopedServiceProvider::getService(type) picks the owner from the first
\* registered descriptor.
ScopeRouteParent(scope, key) == Root

\* Routing by the descriptor getService selects instead of the first one.
ScopeRouteLast(scope, key) ==
    IF _factories[key][Len(_factories[key])].type = "Scoped"
    THEN scope ELSE Root

ScopeRouteOne(scope, key) ==
    IF _factories[key][1].type = "Scoped" THEN scope ELSE Root

\* ServiceProvider::getService(type) and ScopedServiceProvider::getService
\* (type), for a registered type: the static call they make.
GetServiceCallFirst(p, key) ==
    IF p \in Providers
    THEN StaticGetService(p, p, key, 1)
    ELSE StaticGetService(ScopeRouteOne(p, key), p, key, 1)

GetServiceCall(p, key) ==
    IF p \in Providers
    THEN StaticGetService(p, p, key, Len(_factories[key]))
    ELSE StaticGetService(ScopeRouteOne(p, key), p, key, Len(_factories[key]))

\* ScopedServiceProvider::getServices(type) picks the owner of every element
\* from that element's descriptor.
\* Routing every element as getService routes: by the first descriptor.
ScopeRouteEachFirst(scope, key, i) ==
    IF _factories[key][1].type = "Scoped" THEN scope ELSE Root

ScopeRouteEachShared(scope, key, i) ==
    IF _factories[key][i].type = "Scoped" THEN 1 ELSE Root

ScopeRouteEach(scope, key, i) ==
    IF _factories[key][i].type = "Scoped" THEN scope ELSE Root

\* The static call of one iteration of a getServices loop.
GetServicesCall(p, key, i) ==
    IF p \in Providers
    THEN StaticGetService(p, p, key, i)
    ELSE StaticGetService(ScopeRouteEach(p, key, i), p, key, i)

\* The frame of a getServices loop; idx is the loop variable i (from 1).
GetServicesFrame(p, key) == Frame("getServices", NoOwner, p, key, 1, "loop")

\* What a call on an unregistered type returns at once.
NotFoundVector(all) == Vector(<<>>)

NotFound(all) == IF all THEN Vector(<<>>) ELSE Absent

\* desc.convert: a cached service's shared_ptr becomes a reference_wrapper
\* to the object, a transient's shared_ptr is cast and stays a shared_ptr.
Convert(desc, any) ==
    IF Cached(desc) THEN RefWrapper(any.inst) ELSE SharedPtr(any.inst)

Bump(f, x) ==
    IF x \in DOMAIN f THEN [f EXCEPT ![x] = @ + 1] ELSE f @@ (x :> 1)

Calls(x) == IF x \in DOMAIN factoryCalls THEN factoryCalls[x] ELSE 0

\* The record of a result handed to the client that made the outermost call.
ResultOf(p, key, all, val) ==
    [prov |-> p, key |-> key, all |-> all, val |-> val]

Result(t, val) ==
    ResultOf(stack[t][1].ctx, stack[t][1].key,
             stack[t][1].fn = "getServices", val)

Hand(r) == returned (+) SetToBag({r})

\* The innermost frame of t returns val to its caller: the frame below, or
\* the client.
Return(t, val) ==
    LET n == Len(stack[t]) IN
    IF n = 1
    THEN /\ stack' = [stack EXCEPT ![t] = <<>>]
         /\ returned' = Hand(Result(t, val))
    ELSE /\ stack' = [stack EXCEPT ![t] =
                [i \in 1..(n - 1) |->
                    IF i = n - 1
                    THEN [stack[t][i] EXCEPT !.got = Append(@, val)]
                    ELSE stack[t][i]]]
         /\ UNCHANGED returned

\* The static getService of frame f returns the object at address id.
Serve(f, id) ==
    served' = served (+) SetToBag({[owner |-> IF Cached(Desc(f.key, f.idx))
                                               THEN f.owner ELSE NoOwner,
                                    ctx |-> f.ctx, key |-> f.key,
                                    idx |-> f.idx, inst |-> id]})

\* The innermost frame of t moves to pc.
Goto(t, pc) ==
    stack' = [stack EXCEPT ![t][Len(stack[t])].pc = pc]

\* Thread t calls frame f from the stack base (its own stack, the caller's
\* frame already updated).  Entering the static getService for a Transient
\* descriptor runs desc.create at once.
Push(t, base, f) ==
    IF f.fn = "getService" /\ f.pc = "create"
    THEN /\ factoryCalls' = Bump(factoryCalls, <<NoOwner, f.key, f.idx>>)
         /\ stack' = [stack EXCEPT ![t] =
                Append(base, [f EXCEPT !.call = factoryCalls'[<<NoOwner, f.key, f.idx>>]])]
    ELSE /\ factoryCalls' = factoryCalls
         /\ stack' = [stack EXCEPT ![t] = Append(base, f)]

\* Client code may start another call: the provider it calls and the root
\* are alive, no destructor is running, and the run has calls left.  Threads
\* are interchangeable: a thread makes its first call after the threads
\* before it made theirs.
MayCall(t, p) ==
    /\ Idle(t)
    /\ t <= clients
    /\ \A t2 \in Threads : t2 < t => t2 \in callers
    /\ alive[p] = "alive"
    /\ \A o \in Owners : alive[o] # "destroying"
    /\ alive[Provider(p)] = "alive"
    /\ BagCardinality(returned) + Cardinality(Busy) < budget

RequestKeys == DOMAIN _factories \cup {Unregistered}

\* What the templates of IServiceProvider make of the std::any that the
\* virtual getService(type) returned for TService.
Nullptr == [tag |-> "nullptr", inst |-> Null, elems |-> <<>>]
Pointer(id) == [tag |-> "pointer", inst |-> id, elems |-> <<>>]

\* std::logic_error(typeid(TService).name() + " has not been registered...")
LogicError(name) == [tag |-> "logic_error", inst |-> Null, elems |-> <<name>>]

\* getService<TService>() and getTransientService<TService>()
GetServiceT(any) == IF any # Absent THEN Pointer(any.inst) ELSE Nullptr

GetTransientService(any) == IF any # Absent THEN SharedPtr(any.inst) ELSE Nullptr

\* getRequiredService<TService>() and getRequiredTransientService<TService>()
GetRequiredService(name, any) ==
    IF GetServiceT(any) # Nullptr THEN RefWrapper(any.inst) ELSE LogicError(name)

GetRequiredTransientService(name, any) ==
    IF GetTransientService(any) # Nullptr
    THEN SharedPtr(any.inst)
    ELSE LogicError(name)

\* getServices<TService>(): the vector of the elements' reference_wrappers.
GetServicesT(vec) == [i \in DOMAIN vec.elems |-> RefWrapper(vec.elems[i].inst)]

\* ------------------------------------------------------------ client calls
\* provider->getService(type) from client code, on the root or on a scope.
\* A getService whose lookup of the type would insert the key it misses.
ClientGetServiceInserting(t, p, key) ==
    /\ MayCall(t, p)
    /\ IF Find(key)
       THEN /\ Push(t, <<>>, GetServiceCall(p, key))
            /\ UNCHANGED <<returned, _instances>>
       ELSE /\ returned' = Hand(ResultOf(p, key, FALSE, NotFound(FALSE)))
            /\ _instances' = [_instances EXCEPT ![p] = @ @@ (key :> <<>>)]
            /\ UNCHANGED <<stack, factoryCalls>>
    /\ callers' = callers \cup {t}
    /\ UNCHANGED <<clients, budget, providers, additions, registrations, collection, _factories, alive, _initializationOrder,
                   _instancesMutex, _initializationOrderMutex, heap,
                   destroyed,
                   served, teardownLog, readyOrder>>

ClientGetService(t, p, key) ==
    /\ MayCall(t, p)
    /\ IF Find(key)
       THEN /\ Push(t, <<>>, GetServiceCall(p, key))
            /\ UNCHANGED returned
       ELSE /\ returned' = Hand(ResultOf(p, key, FALSE, NotFound(FALSE)))
            /\ UNCHANGED <<stack, factoryCalls>>
    /\ callers' = callers \cup {t}
    /\ UNCHANGED <<clients, budget, providers, additions, registrations, collection, _factories, alive, _instances, _initializationOrder,
                   _instancesMutex, _initializationOrderMutex, heap,
                   destroyed,
                   served, teardownLog, readyOrder>>

\* provider->getServices(type) from client code.
ClientGetServices(t, p, key) ==
    /\ MayCall(t, p)
    /\ IF Find(key)
       THEN /\ Push(t, <<>>, GetServicesFrame(p, key))
            /\ UNCHANGED returned
       ELSE /\ returned' = Hand(ResultOf(p, key, TRUE, NotFound(TRUE)))
            /\ UNCHANGED <<stack, factoryCalls>>
    /\ callers' = callers \cup {t}
    /\ UNCHANGED <<clients, budget, providers, additions, registrations, collection, _factories, alive, _instances, _initializationOrder,
                   _instancesMutex, _initializationOrderMutex, heap,
                   destroyed,
                   served, teardownLog, readyOrder>>

\* One turn of the for loop of getServices: the next static call, or the
\* return of the collected vector.
ServicesLoop(t) ==
    /\ ~Idle(t)
    /\ Top(t).fn = "getServices"
    /\ LET f == Top(t)
           n == Len(stack[t])
       IN IF f.idx <= Len(_factories[f.key])
          THEN /\ Push(t, [stack[t] EXCEPT ![n].idx = f.idx + 1],
                       GetServicesCall(f.ctx, f.key, f.idx))
               /\ UNCHANGED returned
          ELSE /\ Return(t, Vector(f.got))
               /\ UNCHANGED factoryCalls
    /\ UNCHANGED <<clients, budget, providers, additions, registrations, collection, _factories, alive, _instances, _initializationOrder,
                   _instancesMutex, _initializationOrderMutex, heap,
                   destroyed, callers,
                   served, teardownLog, readyOrder>>

\* ------------------------------------------------- the static getService
InStatic(t, pc) ==
    /\ ~Idle(t)
    /\ Top(t).fn = "getService"
    /\ Top(t).pc = pc

\* std::unique_lock instancesLock(serviceProviderForThisService._instancesMutex)
Lock(t) ==
    /\ InStatic(t, "lock")
    /\ _instancesMutex[Top(t).owner] = NoThread
    /\ _instancesMutex' = [_instancesMutex EXCEPT ![Top(t).owner] = t]
    /\ Goto(t, "emplace")
    /\ UNCHANGED <<clients, budget, providers, additions, registrations, collection, _factories, alive, _instances, _initializationOrder,
                   _initializationOrderMutex, heap, destroyed, returned,
                   factoryCalls, callers,
                   served, teardownLog, readyOrder>>

\* _instances.emplace(key, {}), make_unique<ConcurrentService[]>(size) when
\* the key is new, and instancesLock.unlock().
EmplaceInstancesOne(map, key) ==
    IF key \in DOMAIN map
    THEN map
    ELSE map @@ (key :> <<ConcurrentService>>)

EmplaceInstances(map, key) ==
    IF key \in DOMAIN map
    THEN map
    ELSE map @@ (key :> [i \in 1..Len(_factories[key]) |-> ConcurrentService])

\* The emplace without the instancesLock.unlock() after it.
EmplaceLocked(t) ==
    /\ InStatic(t, "emplace")
    /\ LET f == Top(t) IN
        /\ _instances' = [_instances EXCEPT ![f.owner] =
                             EmplaceInstances(@, f.key)]
    /\ Goto(t, "cas")
    /\ UNCHANGED <<clients, budget, providers, additions, registrations, collection, _factories, alive, _initializationOrder,
                   _instancesMutex, _initializationOrderMutex, heap, destroyed, returned,
                   factoryCalls, callers,
                   served, teardownLog, readyOrder>>

Emplace(t) ==
    /\ InStatic(t, "emplace")
    /\ LET f == Top(t) IN
        /\ _instances' = [_instances EXCEPT ![f.owner] =
                             EmplaceInstances(@, f.key)]
        /\ _instancesMutex' = [_instancesMutex EXCEPT ![f.owner] = NoThread]
    /\ Goto(t, "cas")
    /\ UNCHANGED <<clients, budget, providers, additions, registrations, collection, _factories, alive, _initializationOrder,
                   _initializationOrderMutex, heap, destroyed, returned,
                   factoryCalls, callers,
                   served, teardownLog, readyOrder>>

\* instances[index].initialized.compare_exchange_strong(expected, true):
\* TRUE when this thread claimed the slot.
ClaimAlwaysSucceeds(slot) == TRUE

ClaimSucceeds(slot) == slot.initialized = FALSE

CompareExchange(t) ==
    /\ InStatic(t, "cas")
    /\ LET f == Top(t)
           slot == _instances[f.owner][f.key][f.idx]
       IN IF ClaimSucceeds(slot)
          THEN /\ _instances' = [_instances EXCEPT
                      ![f.owner][f.key][f.idx].initialized = TRUE]
               /\ factoryCalls' = Bump(factoryCalls, <<f.owner, f.key, f.idx>>)
               /\ stack' = [stack EXCEPT ![t][Len(stack[t])] =
                      [f EXCEPT !.pc = "create",
                                !.call = factoryCalls'[<<f.owner, f.key, f.idx>>]]]
          ELSE /\ Goto(t, "get")
               /\ UNCHANGED <<_instances, factoryCalls>>
    /\ UNCHANGED <<clients, budget, providers, additions, registrations, collection, _factories, alive, _initializationOrder, _instancesMutex,
                   _initializationOrderMutex, heap, destroyed, returned, callers,
                   served, teardownLog, readyOrder>>

\* ------------------------------------------------------------ the factory
\* desc.create(serviceProviderForDependentServices) is running in the
\* innermost frame of t and has resolved Len(got) constructor arguments.
InFactory(t) == InStatic(t, "create")

NextDep(t) == Desc(Top(t).key, Top(t).idx).deps[Len(Top(t).got) + 1]

HasNextDep(t) == Len(Top(t).got) < Len(Desc(Top(t).key, Top(t).idx).deps)

\* ServiceFactory::getService<T>: the factory asks its provider for the next
\* constructor argument (getServices for a vector argument).
ResolveDependency(t) ==
    /\ InFactory(t)
    /\ HasNextDep(t)
    /\ LET f == Top(t)
           dep == NextDep(t)
       IN \/ /\ dep.all
             /\ Find(dep.key)
             /\ Push(t, stack[t], GetServicesFrame(f.ctx, dep.key))
          \/ /\ dep.all
             /\ ~Find(dep.key)
             /\ stack' = [stack EXCEPT ![t][Len(stack[t])].got =
                             Append(@, NotFound(TRUE))]
             /\ UNCHANGED factoryCalls
          \/ /\ ~dep.all
             /\ Find(dep.key)
             /\ Push(t, stack[t], GetServiceCall(f.ctx, dep.key))
    /\ UNCHANGED <<clients, budget, providers, additions, registrations, collection, _factories, alive, _instances, _initializationOrder,
                   _instancesMutex, _initializationOrderMutex, heap,
                   destroyed, returned, callers,
                   served, teardownLog, readyOrder>>

\* std::any_cast of the empty std::any that getService returned for an
\* unregistered argument type throws std::bad_any_cast.  Nothing on the way
\* up catches it: every frame of the thread is unwound and the client gets
\* the exception.  No lock is held while a factory runs.
FactorySwallows(t) ==
    /\ InFactory(t)
    /\ HasNextDep(t)
    /\ ~NextDep(t).all
    /\ ~Find(NextDep(t).key)
    /\ stack' = [stack EXCEPT ![t] = <<>>]
    /\ returned' = Hand(Result(t, Absent))
    /\ UNCHANGED <<clients, budget, providers, additions, registrations, collection, _factories, alive, _instances, _initializationOrder,
                   _instancesMutex, _initializationOrderMutex, heap,
                   destroyed, factoryCalls, callers,
                   served, teardownLog, readyOrder>>

FactoryThrows(t) ==
    /\ InFactory(t)
    /\ HasNextDep(t)
    /\ ~NextDep(t).all
    /\ ~Find(NextDep(t).key)
    /\ stack' = [stack EXCEPT ![t] = <<>>]
    /\ returned' = Hand(Result(t, Exception("bad_any_cast")))
    /\ UNCHANGED <<clients, budget, providers, additions, registrations, collection, _factories, alive, _instances, _initializationOrder,
                   _instancesMutex, _initializationOrderMutex, heap,
                   destroyed, factoryCalls, callers,
                   served, teardownLog, readyOrder>>

\* The object the factory of the innermost frame makes from the arguments
\* it resolved.
NewObject(f) == [ctx |-> f.ctx, args |-> f.got]

\* The address desc.create returns: the captured existing object, or a new
\* heap cell.
\* A factory that would hand out a copy of the existing instance.
CreatedCopy(f) ==
    Address(IF Cached(Desc(f.key, f.idx)) THEN f.owner ELSE NoOwner,
            f.key, f.idx, f.call)

CreatedAgain(f) ==
    IF Desc(f.key, f.idx).existing # Null
    THEN Desc(f.key, f.idx).existing
    ELSE Address(IF Cached(Desc(f.key, f.idx)) THEN f.owner ELSE NoOwner,
                 f.key, f.idx, 1)

Created(f) ==
    IF Desc(f.key, f.idx).existing # Null
    THEN Desc(f.key, f.idx).existing
    ELSE Address(IF Cached(Desc(f.key, f.idx)) THEN f.owner ELSE NoOwner,
                 f.key, f.idx, f.call)

HeapAfterCreate(f) ==
    IF Desc(f.key, f.idx).existing # Null
    THEN heap
    ELSE (Created(f) :> NewObject(f)) @@ heap

\* servicePromise.set_value: the shared state of the slot after it.
PublishedUnclaimed(slot, any) ==
    [slot EXCEPT !.value = any, !.initialized = FALSE]

Published(slot, any) == [slot EXCEPT !.value = any]

\* instances[index].servicePromise.set_value(desc.create(...)): the factory
\* of a Singleton or Scoped descriptor finishes and the slot becomes ready.
SetValue(t) ==
    /\ InFactory(t)
    /\ ~HasNextDep(t)
    /\ Cached(Desc(Top(t).key, Top(t).idx))
    /\ LET f == Top(t) IN
        /\ heap' = HeapAfterCreate(f)
        /\ _instances' = [_instances EXCEPT ![f.owner][f.key][f.idx] =
                             Published(@, SharedPtr(Created(f)))]
        /\ readyOrder' = [readyOrder EXCEPT ![f.owner] =
                             Append(@, Created(f))]
    /\ Goto(t, "orderLock")
    /\ UNCHANGED <<clients, budget, providers, additions, registrations, collection, _factories, alive, _initializationOrder, _instancesMutex,
                   _initializationOrderMutex, destroyed, returned,
                   factoryCalls, callers,
                   served, teardownLog>>

\* return desc.convert(desc.create(...)): the Transient branch.
CreateTransient(t) ==
    /\ InFactory(t)
    /\ ~HasNextDep(t)
    /\ ~Cached(Desc(Top(t).key, Top(t).idx))
    /\ LET f == Top(t) IN
        /\ heap' = HeapAfterCreate(f)
        /\ Serve(f, Created(f))
        /\ Return(t, Convert(Desc(f.key, f.idx), SharedPtr(Created(f))))
    /\ UNCHANGED <<clients, budget, providers, additions, registrations, collection, _factories, alive, _instances, _initializationOrder,
                   _instancesMutex, _initializationOrderMutex, destroyed,
                   factoryCalls, callers,
                   teardownLog, readyOrder>>

\* std::scoped_lock lock{serviceProviderForThisService._initializationOrderMutex}
OrderLock(t) ==
    /\ InStatic(t, "orderLock")
    /\ _initializationOrderMutex[Top(t).owner] = NoThread
    /\ _initializationOrderMutex' =
           [_initializationOrderMutex EXCEPT ![Top(t).owner] = t]
    /\ Goto(t, "append")
    /\ UNCHANGED <<clients, budget, providers, additions, registrations, collection, _factories, alive, _instances, _initializationOrder,
                   _instancesMutex, heap, destroyed, returned, factoryCalls, callers,
                   served, teardownLog, readyOrder>>

\* _initializationOrder.emplace_back(instances[index].serviceFuture.get())
LoggedInFront(log, any) == <<any>> \o log

\* An emplace_back that would run twice.
LoggedTwice(log, any) == log \o <<any, any>>

Logged(log, any) == Append(log, any)

\* The emplace_back and the end of the scoped_lock's block.
EmplaceBack(t) ==
    /\ InStatic(t, "append")
    /\ LET f == Top(t) IN
        /\ _initializationOrder' = [_initializationOrder EXCEPT ![f.owner] =
               Logged(@, _instances[f.owner][f.key][f.idx].value)]
        /\ _initializationOrderMutex' =
               [_initializationOrderMutex EXCEPT ![f.owner] = NoThread]
    /\ Goto(t, "get")
    /\ UNCHANGED <<clients, budget, providers, additions, registrations, collection, _factories, alive, _instances, _instancesMutex, heap,
                   destroyed, returned, factoryCalls, callers,
                   served, teardownLog, readyOrder>>

\* shared_future::get returns once the promise has a value.
FutureNeverReady(slot) == FALSE

\* A get that would not wait for the promise's value.
FutureAlwaysReady(slot) == TRUE

FutureReady(slot) == slot.value # Absent

\* return desc.convert(instances[index].serviceFuture.get())
FutureGet(t) ==
    /\ InStatic(t, "get")
    /\ LET f == Top(t)
           slot == _instances[f.owner][f.key][f.idx]
       IN /\ FutureReady(slot)
          /\ Serve(f, slot.value.inst)
          /\ Return(t, Convert(Desc(f.key, f.idx), slot.value))
    /\ UNCHANGED <<clients, budget, providers, additions, registrations, collection, _factories, alive, _instances, _initializationOrder,
                   _instancesMutex, _initializationOrderMutex, heap,
                   destroyed, factoryCalls, callers,
                   teardownLog, readyOrder>>

\* ------------------------------------------------------ scopes, teardown
\* Scope s has been called.  Scopes are interchangeable and creating one
\* touches nothing shared, so the model creates the next scope only once
\* the ones before it are in use.
Used(s) ==
    \/ \E t \in Threads : \E i \in DOMAIN stack[t] : stack[t][i].ctx = s
    \/ \E r \in BagToSet(returned) : r.prov = s

\* ServiceCollection::build() called once more on the living collection:
\* another ServiceProvider with its own copy of the collection's _factories.
Build(p) ==
    /\ p = Second
    /\ providers = 2
    /\ collection
    /\ alive[p] = "none"
    /\ \A o \in Owners : alive[o] # "destroying"
    /\ alive' = [alive EXCEPT ![p] = "alive"]
    /\ UNCHANGED <<clients, budget, providers, additions, registrations, collection, _factories, _instances,
                   _initializationOrder, _instancesMutex,
                   _initializationOrderMutex, stack, heap, destroyed,
                   returned, factoryCalls, callers, served, teardownLog, readyOrder>>

\* _factories.emplace(typeIndex, {}).first->second.emplace_back(...) of
\* addService: the collection's map with one more descriptor for key.
Registering(map, key, desc) ==
    IF key \in DOMAIN map
    THEN [map EXCEPT ![key] = Append(@, desc)]
    ELSE map @@ (key :> <<desc>>)

\* The provider's _factories after the collection changed: the provider
\* holds the copy the constructor moved into its const member.
SealedByReference(own, map) == map

Sealed(own, map) == own

\* ServiceCollection::addSingleton<key>() after build(): client code goes on
\* registering in the living collection once its providers are built.
AddService(key) ==
    /\ collection
    /\ additions > 0
    /\ \A p \in Providers : (p = Root \/ providers = 2) => alive[p] # "none"
    /\ \A o \in Owners : alive[o] # "destroying"
    /\ additions' = additions - 1
    /\ registrations' = Registering(registrations, key, Singleton(<<>>))
    /\ _factories' = Sealed(_factories, registrations')
    /\ UNCHANGED <<clients, budget, providers, collection, alive, _instances,
                   _initializationOrder, _instancesMutex,
                   _initializationOrderMutex, stack, heap, destroyed,
                   returned, factoryCalls, callers, served, teardownLog, readyOrder>>

\* ServiceProvider::createScope(): make_unique<ScopedServiceProvider>(*this).
CreateScope(s) ==
    /\ alive[Root] = "alive"
    /\ \A o \in Owners : alive[o] # "destroying"
    /\ alive[s] = "none"
    /\ \A s2 \in Scopes : s2 < s => Used(s2)
    /\ alive' = [alive EXCEPT ![s] = "alive"]
    /\ UNCHANGED <<clients, budget, providers, additions, registrations, collection, _factories, _instances, _initializationOrder,
                   _instancesMutex, _initializationOrderMutex, stack, heap,
                   destroyed, returned, factoryCalls, callers,
                   served, teardownLog, readyOrder>>

\* Client code destroys a provider or a scope between its calls: a
\* destructor beside a call on the same object is outside the container's
\* contract, and one destructor runs at a time.
Quiescent(o) ==
    /\ \A t \in Threads : Idle(t)
    /\ \A o2 \in Owners : alive[o2] # "destroying"

\* The shared_ptr copies that keep object id alive: slots, logs, and the
\* factory closure that captured an existing instance.
InTable(tables, id) ==
    \E o \in Owners : \E k \in DOMAIN tables[o] : \E i \in DOMAIN tables[o][k] :
        tables[o][k][i].value.inst = id

InLog(logs, id) ==
    \E o \in Owners : \E i \in DOMAIN logs[o] : logs[o][i].inst = id

\* A closure that would hold its resource only through the collection.
CapturedByCollection(id) ==
    /\ \E k \in DOMAIN _factories : \E i \in DOMAIN _factories[k] :
           _factories[k][i].existing = id
    /\ collection

Captured(id) ==
    /\ \E k \in DOMAIN _factories : \E i \in DOMAIN _factories[k] :
           _factories[k][i].existing = id
    /\ collection \/ \E p \in Providers : alive[p] \in {"alive", "destroying"}

Held(tables, logs, id) ==
    InTable(tables, id) \/ InLog(logs, id) \/ Captured(id)

\* The orders in which the objects of set S can be destroyed.
Orders(S) ==
    {q \in [1..Cardinality(S) -> S] : \A i, j \in DOMAIN q : i # j => q[i] # q[j]}

\* _instances.clear() in the destructor of owner o: the tables after it.
\* A destructor whose first statement would leave the table alone.
ClearedNever(tables, o) == tables

ClearedWithParent(tables, o) ==
    [tables EXCEPT ![o] = EmptyMap, ![Root] = EmptyMap]

Cleared(tables, o) == [tables EXCEPT ![o] = EmptyMap]

\* The destructor's first statement, _instances.clear(): every slot drops
\* its copy, and an object nothing else holds dies here, in the unordered
\* map's order.
DestroyBegin(o) ==
    /\ alive[o] = "alive"
    /\ Quiescent(o)
    /\ alive' = [alive EXCEPT ![o] = "destroying"]
    /\ teardownLog' = [teardownLog EXCEPT ![o] = _initializationOrder[o]]
    /\ _instances' = Cleared(_instances, o)
    /\ LET dropped ==
               {id \in DOMAIN heap :
                    /\ InTable(_instances, id)
                    /\ ~Held(_instances', _initializationOrder, id)}
       IN \E q \in Orders(dropped) : destroyed' = destroyed \o q
    /\ UNCHANGED <<readyOrder, clients, budget, providers, additions, registrations, collection, _factories, _initializationOrder, _instancesMutex,
                   _initializationOrderMutex, stack, heap, returned,
                   factoryCalls, callers,
                   served>>

\* _initializationOrder.pop_back(): the vector without the element it drops.
PoppedFront(log) == Tail(log)

PoppedBack(log) == SubSeq(log, 1, Len(log) - 1)

\* One turn of while (!_initializationOrder.empty()) pop_back(): the last
\* shared_ptr of the log is released and its object dies unless something
\* else still holds it.
PopBack(o) ==
    /\ alive[o] = "destroying"
    /\ _initializationOrder[o] # <<>>
    /\ LET log == _initializationOrder[o]
           id == log[Len(log)].inst
       IN /\ _initializationOrder' =
                 [_initializationOrder EXCEPT ![o] = PoppedBack(log)]
          /\ destroyed' =
                 IF Held(_instances, _initializationOrder', id)
                 THEN destroyed
                 ELSE Append(destroyed, id)
    /\ UNCHANGED <<clients, budget, providers, additions, registrations, collection, _factories, alive, _instances, _instancesMutex,
                   _initializationOrderMutex, stack, heap, returned,
                   factoryCalls, callers,
                   served, teardownLog, readyOrder>>

\* The loop ends on the empty log and the members are destroyed: with the
\* provider's copy of _factories go its closures' pointers to the existing
\* instances, which die here when the collection's copy is gone too.
DestroyEnd(o) ==
    /\ alive[o] = "destroying"
    /\ _initializationOrder[o] = <<>>
    /\ alive' = [alive EXCEPT ![o] = "destroyed"]
    /\ LET released ==
               IF /\ o \in Providers
                  /\ ~collection
                  /\ \A p \in Providers \ {o} : alive[p] \notin {"alive", "destroying"}
               THEN ExistingObjects(_factories)
               ELSE {}
       IN \E q \in Orders(released) : destroyed' = destroyed \o q
    /\ UNCHANGED <<clients, budget, providers, additions, registrations, collection, _factories, _instances, _initializationOrder,
                   _instancesMutex, _initializationOrderMutex, stack, heap,
                   returned, factoryCalls, callers,
                   served, teardownLog, readyOrder>>

\* ------------------------------------------------------------ the system
\* The next statement of the call thread t is in.
Advance(t) ==
    \/ ServicesLoop(t)
    \/ Lock(t)
    \/ Emplace(t)
    \/ CompareExchange(t)
    \/ ResolveDependency(t)
    \/ FactoryThrows(t)
    \/ SetValue(t)
    \/ CreateTransient(t)
    \/ OrderLock(t)
    \/ EmplaceBack(t)
    \/ FutureGet(t)

Step(t) ==
    \/ \E p \in Owners : \E key \in RequestKeys : ClientGetService(t, p, key)
    \/ \E p \in Owners : \E key \in RequestKeys : ClientGetServices(t, p, key)
    \/ Advance(t)

Next ==
    \/ \E t \in Threads : Step(t)
    \/ \E p \in Providers : Build(p)
    \/ \E key \in RequestKeys : AddService(key)
    \/ \E s \in Scopes : CreateScope(s)
    \/ \E o \in Owners : DestroyBegin(o)
    \/ \E o \in Owners : PopBack(o)
    \/ \E o \in Owners : DestroyEnd(o)

Spec == Init /\ [][Next]_vars

\* A thread inside a call is scheduled again and again; client code need not
\* call, create scopes or destroy anything.
FairSpec == Spec /\ \A t \in Threads : WF_vars(Advance(t))

\* ============================================================ properties
\* The slot of owner o for descriptor idx of key, when the table has it.
HasSlot(o, key, idx) == key \in DOMAIN _instances[o]
SlotAt(o, key, idx) == _instances[o][key][idx]

\* Some thread is inside the factory of slot (o, key, idx).
Constructing(o, key, idx) ==
    \E t \in Threads : \E i \in DOMAIN stack[t] :
        /\ stack[t][i].fn = "getService"
        /\ stack[t][i].pc = "create"
        /\ stack[t][i].owner = o
        /\ stack[t][i].key = key
        /\ stack[t][i].idx = idx

\* What the static getService has returned so far for cached descriptors.
ServedCached == {r \in BagToSet(served) : r.owner # NoOwner}

SameSlot(r1, r2) ==
    r1.owner = r2.owner /\ r1.key = r2.key /\ r1.idx = r2.idx

\* The addresses a constructor argument refers to.
Targets(arg) ==
    IF arg.tag = "vector"
    THEN {arg.elems[i].inst : i \in DOMAIN arg.elems}
    ELSE {arg.inst} \ {Null}

\* The objects the factory of object a resolved.
Deps(a) == UNION {Targets(heap[a].args[i]) : i \in DOMAIN heap[a].args}

IsDestroyed(a) == \E i \in DOMAIN destroyed : destroyed[i] = a
DestroyedAt(a) == CHOOSE i \in DOMAIN destroyed : destroyed[i] = a
DestroyedBefore(a, b) ==
    IsDestroyed(a) /\ (IsDestroyed(b) => DestroyedAt(a) < DestroyedAt(b))

\* The owner whose table caches object a (NoOwner: a transient or an
\* object client code made).
OwnerOf(a) == a[1]

\* C1: for every owner and every Singleton or Scoped descriptor, the factory
\* runs at most once for the owner's slot, and every call that returns from
\* that slot returns the same instance, under any interleaving of threads.
C1_OncePerSlot ==
    /\ \A x \in DOMAIN factoryCalls :
           x[1] # NoOwner => factoryCalls[x] <= 1
    /\ \A r1, r2 \in ServedCached : SameSlot(r1, r2) => r1.inst = r2.inst

\* Two threads looked the same slot up at the same time: one claimed it and
\* has published, the other lost the claim and has been served the instance.
C1_Witness ==
    \E t \in Threads : \E r \in ServedCached :
        /\ InStatic(t, "orderLock")
        /\ SameSlot(Top(t), r)
        /\ callers = Threads
        /\ Calls(<<r.owner, r.key, r.idx>>) = 1

\* C2: when the factory of a Singleton or Scoped descriptor fails after its
\* slot was claimed, no lookup of that slot blocks forever.  A lookup that
\* waits on the future of a slot that is claimed, has no value and has no
\* thread left in its factory can never return: nothing will set the value.
Abandoned(o, key, idx) ==
    /\ HasSlot(o, key, idx)
    /\ SlotAt(o, key, idx).initialized
    /\ ~FutureReady(SlotAt(o, key, idx))
    /\ ~Constructing(o, key, idx)

C2_NoLookupBlocksForever ==
    \A t \in Threads :
        InStatic(t, "get") => ~Abandoned(Top(t).owner, Top(t).key, Top(t).idx)

\* C3: under any interleaving of lookups on one owner, an instance X whose
\* factory resolved an instance Y cached in the same owner is destroyed
\* before Y when the owner is destroyed.
C3_DependantDestroyedFirst ==
    \A x, y \in DOMAIN heap :
        (/\ y \in Deps(x)
         /\ OwnerOf(x) # NoOwner
         /\ OwnerOf(x) = OwnerOf(y)
         /\ IsDestroyed(y)) => DestroyedBefore(x, y)

\* The lifetime of the descriptor a record of served or of a slot is about.
TypeOf(key, idx) == Desc(key, idx).type

\* The slots of owner o that hold an instance, as <<key, index>>.
FilledSlots(o) ==
    {ki \in UNION {{<<k, i>> : i \in DOMAIN _instances[o][k]} :
                      k \in DOMAIN _instances[o]} :
        FutureReady(_instances[o][ki[1]][ki[2]])}

\* C4: a Singleton descriptor is only ever cached in the root provider's
\* table, never in a scope's, whether getService or getServices asked for it,
\* at the provider or at a scope, also for keys whose descriptors have
\* different lifetimes.
C4_SingletonOnlyInRoot ==
    /\ \A s \in Scopes : \A ki \in FilledSlots(s) :
           TypeOf(ki[1], ki[2]) # "Singleton"
    /\ \A r \in ServedCached :
           TypeOf(r.key, r.idx) = "Singleton" => r.owner = Provider(r.ctx)

\* C5: a Scoped descriptor requested through a scope is cached in that
\* scope's own table and not in the root's; requested through the root
\* provider it is cached in the root's table.
C5_ScopedInRequestingOwner ==
    /\ \A r \in ServedCached :
           TypeOf(r.key, r.idx) = "Scoped" => r.owner = r.ctx
    /\ \A p \in Providers : \A ki \in FilledSlots(p) :
           TypeOf(ki[1], ki[2]) = "Scoped" =>
               heap[SlotAt(p, ki[1], ki[2]).value.inst].ctx = p

\* The results of getService that client code got for registered keys.
Singles ==
    {r \in BagToSet(returned) : ~r.all /\ r.val.tag # "empty"
                                  /\ r.val.tag # "bad_any_cast"}

\* The lifetime of the registration getService selects: the last one.
SelectedType(key) == TypeOf(key, Len(_factories[key]))

\* C6: for a Scoped registration the provider and each of its scopes return
\* instances distinct from one another while one scope keeps returning the
\* same instance; for a Singleton registration the provider and all its
\* scopes return the identical instance.
C6_ScopesOwnScopedShareSingleton ==
    \A r1, r2 \in Singles :
        (r1.key = r2.key /\ Provider(r1.prov) = Provider(r2.prov)) =>
            /\ SelectedType(r1.key) = "Scoped" =>
                   (r1.prov = r2.prov <=> r1.val = r2.val)
            /\ SelectedType(r1.key) = "Singleton" => r1.val = r2.val

\* The results of getServices that client code got for registered keys.
Multis ==
    {r \in BagToSet(returned) :
        r.all /\ r.val.tag = "vector" /\ r.key \in DOMAIN _factories}

SameLookup(r1, r2) == r1.prov = r2.prov /\ r1.key = r2.key

\* C7: on one provider or scope, any two lookups of one type key return
\* distinct instances when the registration is Transient and the identical
\* instance when it is Singleton or Scoped, whatever other lookups happen in
\* between; the elements of two getServices results compare the same way.
C7_RepeatedLookups ==
    /\ \A r1, r2 \in Singles :
           SameLookup(r1, r2) =>
               IF SelectedType(r1.key) = "Transient"
               THEN /\ CopiesIn(r1, returned) = 1
                    /\ r1 # r2 => r1.val.inst # r2.val.inst
               ELSE r1.val.inst = r2.val.inst
    /\ \A r1, r2 \in Multis :
           SameLookup(r1, r2) =>
               \A i \in DOMAIN _factories[r1.key] :
                   IF TypeOf(r1.key, i) = "Transient"
                   THEN /\ CopiesIn(r1, returned) = 1
                        /\ r1 # r2 => r1.val.elems[i].inst # r2.val.elems[i].inst
                   ELSE r1.val.elems[i].inst = r2.val.elems[i].inst

\* A scope returned the same Scoped instance to two lookups and, on a third
\* lookup, a Transient instance.
C7_Witness ==
    \E r, r3 \in Singles :
        /\ r.prov \in Scopes
        /\ SelectedType(r.key) = "Scoped"
        /\ CopiesIn(r, returned) = 2
        /\ r3.prov = r.prov
        /\ SelectedType(r3.key) = "Transient"

\* What the static getService has returned for Transient descriptors.
ServedTransient ==
    {r \in BagToSet(served) : TypeOf(r.key, r.idx) = "Transient"}

\* The activations that are inside the factory of descriptor idx of key.
Creating(key, idx) ==
    {ti \in UNION {{<<t, i>> : i \in DOMAIN stack[t]} : t \in Threads} :
        /\ stack[ti[1]][ti[2]].fn = "getService"
        /\ stack[ti[1]][ti[2]].pc = "create"
        /\ stack[ti[1]][ti[2]].key = key
        /\ stack[ti[1]][ti[2]].idx = idx}

\* C8: a Transient descriptor never creates or fills a table entry or a log
\* entry in any owner; every request for it (single lookup, element of a
\* multi lookup, injection as a dependency, from the provider or a scope)
\* invokes the factory and returns an instance no other request returned.
C8_TransientNeverCached ==
    /\ \A o \in Owners :
        /\ \A k \in DOMAIN _instances[o] :
               /\ \E i \in DOMAIN _factories[k] : TypeOf(k, i) # "Transient"
               /\ \A i \in DOMAIN _instances[o][k] :
                      TypeOf(k, i) = "Transient" =>
                          _instances[o][k][i] = ConcurrentService
        /\ \A j \in DOMAIN _initializationOrder[o] :
               LET a == _initializationOrder[o][j].inst
               IN TypeOf(a[2], a[3]) # "Transient"
    /\ \A r \in ServedTransient : CopiesIn(r, served) = 1
    /\ \A r1, r2 \in ServedTransient : r1.inst = r2.inst => r1 = r2
    /\ \A k \in DOMAIN _factories : \A i \in DOMAIN _factories[k] :
           TypeOf(k, i) = "Transient" =>
               Calls(<<NoOwner, k, i>>) =
                   Cardinality({r \in ServedTransient : r.key = k /\ r.idx = i})
                   + Cardinality(Creating(k, i))

\* A scope answered getServices for a Transient key and injected the same
\* Transient descriptor into another service: two instances, no table entry.
C8_Witness ==
    \E r \in Multis : \E w \in Singles :
        /\ r.key = "sp_T"
        /\ r.prov \in Scopes
        /\ Len(r.val.elems) = 1
        /\ w.key = "sp_W"
        /\ w.prov = r.prov
        /\ heap[w.val.inst].args[1].inst # r.val.elems[1].inst
        /\ Calls(<<NoOwner, "sp_T", 1>>) = 2
        /\ \A o \in Owners : "sp_T" \notin DOMAIN _instances[o]

\* Everything object x depends on, directly or through other objects.
RECURSIVE Closure(_, _)
Closure(S, n) ==
    IF n = 0 THEN S ELSE Closure(S \cup UNION {Deps(a) : a \in S}, n - 1)

AllDeps(x) == Closure(Deps(x), Cardinality(DOMAIN heap))

\* The objects destroyed so far that owner o cached, in destruction order.
DestroyedOf(o) == SelectSeq(destroyed, LAMBDA a : OwnerOf(a) = o)

\* The chain D -> C -> B -> A as cached by owner o, dependant first.
ChainOf(o) ==
    <<Address(o, "D", 1, 1), Address(o, "C", 1, 1),
      Address(o, "B", 1, 1), Address(o, "A", 1, 1)>>

\* C9: when services are resolved from a single thread, every instance is
\* destroyed before every same-owner instance it depends on; the chain
\* D -> C -> B -> A cached on one owner is destroyed in the order D, C, B, A
\* at that owner's teardown, whatever was requested first.
C9_SingleThreadDependantsFirst ==
    Cardinality(callers) <= 1 =>
        /\ \A x, y \in DOMAIN heap :
               (/\ y \in AllDeps(x)
                /\ OwnerOf(x) # NoOwner
                /\ OwnerOf(x) = OwnerOf(y)
                /\ IsDestroyed(y)) => DestroyedBefore(x, y)
        /\ \A o \in Owners :
               (/\ alive[o] = "destroyed"
                /\ "D" \in DOMAIN _factories
                /\ ChainOf(o)[1] \in DOMAIN heap) => DestroyedOf(o) = ChainOf(o)

\* An owner was asked for B and for D of the chain and has been destroyed.
C9_Witness ==
    \E o \in Owners : \E rb, rd \in Singles :
        /\ alive[o] = "destroyed"
        /\ rb.key = "B" /\ rb.prov = o
        /\ rd.key = "D" /\ rd.prov = o
        /\ DestroyedOf(o) = ChainOf(o)

Reverse(s) == [i \in 1..Len(s) |-> s[Len(s) + 1 - i]]

Insts(log) == [i \in DOMAIN log |-> log[i].inst]

\* The part of its log that the destructor of owner o has popped so far.
Popped(o) ==
    SubSeq(teardownLog[o], Len(_initializationOrder[o]) + 1,
           Len(teardownLog[o]))

InTeardownLog(o, a) ==
    \E i \in DOMAIN teardownLog[o] : teardownLog[o][i].inst = a

\* Object a was made by client code and registered as an existing instance.
Registered(a) == a \in ExistingObjects(_factories)

\* C10 as stated: when an owner is destroyed, its cached instances are
\* destroyed in exactly the reverse of the order of its log, and every
\* instance in the log is destroyed.
C10_EveryLoggedInstanceDestroyed ==
    \A o \in Owners :
        alive[o] = "destroyed" =>
            SelectSeq(destroyed, LAMBDA a : InTeardownLog(o, a))
                = Reverse(Insts(teardownLog[o]))

\* C10: the destructor of an owner releases the entries of its log in
\* exactly the reverse of their order in the log, and every instance of the
\* log that client code did not register as an existing instance is
\* destroyed at its release.
C10_ReverseLogOrder ==
    \A o \in Owners :
        alive[o] \in {"destroying", "destroyed"} =>
            SelectSeq(destroyed,
                      LAMBDA a : InTeardownLog(o, a) /\ ~Registered(a))
                = SelectSeq(Reverse(Insts(Popped(o))),
                            LAMBDA a : ~Registered(a))

\* The provider was destroyed with an existing instance logged after the
\* three instances of a multi lookup.
C10_Witness ==
    /\ alive[Root] = "destroyed"
    /\ Len(teardownLog[Root]) = 4
    /\ teardownLog[Root][4].inst = ExistingAddress
    /\ Len(DestroyedOf(Root)) = 3

\* The instance of the last element of a getServices result.
LastOf(r) == r.val.elems[Len(r.val.elems)].inst

\* C11: for every provider or scope and every registered key whose
\* registrations are Singleton or Scoped, getService(key) returns the same
\* instance as the last element of getServices(key) on that provider or
\* scope, whichever of the two was called first.
C11_SingleIsLastOfMulti ==
    \A r1 \in Singles : \A r2 \in Multis :
        (/\ SameLookup(r1, r2)
         /\ \A i \in DOMAIN _factories[r1.key] :
                TypeOf(r1.key, i) # "Transient") => r1.val.inst = LastOf(r2)

\* The descriptor whose factory made the object at address a.
MadeBy(a) == <<a[2], a[3]>>

\* C12: getServices returns exactly one result per descriptor of the key, in
\* registration order, and getService returns the result of the descriptor
\* registered last, for Singleton, Scoped and Transient registrations.
C12_RegistrationOrder ==
    /\ \A r \in Multis :
           /\ Len(r.val.elems) = Len(_factories[r.key])
           /\ \A i \in DOMAIN r.val.elems :
                  MadeBy(r.val.elems[i].inst) = <<r.key, i>>
    /\ \A r \in Singles :
           MadeBy(r.val.inst) = <<r.key, Len(_factories[r.key])>>

\* A scope answered getServices with three Transient instances and
\* getService with the third Scoped implementation.
C12_Witness ==
    \E r1 \in Multis : \E r2 \in Singles :
        /\ r1.key = "sp_P" /\ Len(r1.val.elems) = 3
        /\ r2.key = "Q" /\ r2.val.inst[3] = 3
        /\ r1.prov \in Scopes /\ r2.prov = r1.prov

\* The results client code got for type keys that are not registered.
Misses == {r \in BagToSet(returned) : r.key \notin DOMAIN _factories}

\* C13: looking up an unregistered type key returns an empty any (a null
\* pointer) from single lookups, an empty vector from multi lookups, and an
\* error naming the missing type from required lookups, on the root provider
\* and on every scope.
C13_UnregisteredLookups ==
    \A r \in Misses :
        IF r.all
        THEN /\ r.val = Vector(<<>>)
             /\ GetServicesT(r.val) = <<>>
        ELSE /\ r.val = Absent
             /\ GetServiceT(r.val) = Nullptr
             /\ GetTransientService(r.val) = Nullptr
             /\ GetRequiredService(r.key, r.val) = LogicError(r.key)
             /\ GetRequiredTransientService(r.key, r.val) = LogicError(r.key)

\* A scope was asked getService and the root getServices for a type that is
\* not registered.
C13_Witness ==
    \E r1, r2 \in Misses :
        /\ ~r1.all /\ r1.prov \in Scopes
        /\ r2.all /\ r2.prov = Root

\* The object that result r's service got as its j-th constructor argument.
ArgOf(r, j) == heap[r.val.inst].args[j].inst

\* The constructor parameters of the registration getService selects.
Params(key) == Desc(key, Len(_factories[key])).deps

\* C14: a Transient service with a Scoped dependency gets, when requested
\* from a scope, that scope's instance of the dependency: the same one on
\* every request from that scope, a different one from another scope; a
\* Singleton dependency of the transient is the same instance in all scopes.
C14_TransientDependenciesPerScope ==
    \A r1, r2 \in Singles :
        (/\ r1.key = r2.key
         /\ SelectedType(r1.key) = "Transient"
         /\ r1.prov \in Scopes
         /\ r2.prov \in Scopes) =>
            \A j \in DOMAIN Params(r1.key) :
                LET d == Params(r1.key)[j] IN
                ~d.all =>
                    /\ SelectedType(d.key) = "Scoped" =>
                           /\ OwnerOf(ArgOf(r1, j)) = r1.prov
                           /\ ArgOf(r1, j) = ArgOf(r2, j) <=> r1.prov = r2.prov
                    /\ SelectedType(d.key) = "Singleton" =>
                           ArgOf(r1, j) = ArgOf(r2, j)

\* Two scopes each returned the transient built from their own Scoped
\* instance and the shared Singleton.
C14_Witness ==
    \E r1, r2 \in Singles :
        /\ r1.key = "sp_T" /\ r2.key = "sp_T"
        /\ Len(Params("sp_T")) = 2
        /\ r1.prov \in Scopes /\ r2.prov \in Scopes /\ r1.prov # r2.prov
        /\ ArgOf(r1, 1) # ArgOf(r2, 1)
        /\ ArgOf(r1, 2) = ArgOf(r2, 2)

\* The objects the container made for Singleton descriptors.
SingletonObjects ==
    {x \in DOMAIN heap : ~Registered(x) /\ TypeOf(x[2], x[3]) = "Singleton"}

\* A lookup of the descriptor of object x came through provider or scope c:
\* it has returned x or is still running.
LookedUpThrough(x, c) ==
    \/ \E r \in BagToSet(served) : r.inst = x /\ r.ctx = c
    \/ \E t \in Threads : \E i \in DOMAIN stack[t] :
           /\ stack[t][i].fn = "getService"
           /\ MadeBy(x) = <<stack[t][i].key, stack[t][i].idx>>
           /\ stack[t][i].ctx = c

\* The owners in which the factory of descriptor idx of key has run.
Builders(key, idx) == {o \in Owners : Calls(<<o, key, idx>>) > 0}

\* C15: a Singleton first requested through scope S is constructed with S as
\* resolution context, so its Scoped dependencies are S's scoped instances;
\* every later lookup of that singleton, from the provider or from any other
\* scope, returns the same instance and runs no factory of it again.
C15_SingletonBuiltOnceInRequestingScope ==
    /\ \A x \in SingletonObjects :
           /\ LookedUpThrough(x, heap[x].ctx)
           /\ \A j \in DOMAIN Desc(x[2], x[3]).deps :
                  LET d == Desc(x[2], x[3]).deps[j] IN
                  (~d.all /\ SelectedType(d.key) = "Scoped") =>
                      OwnerOf(heap[x].args[j].inst) = heap[x].ctx
    /\ \A k \in DOMAIN _factories : \A i \in DOMAIN _factories[k] :
           TypeOf(k, i) = "Singleton" =>
               /\ \A p \in Providers :
                      Cardinality({o \in Builders(k, i) : Provider(o) = p}) <= 1
               /\ \A o \in Owners : Calls(<<o, k, i>>) <= 1
    /\ \A r1, r2 \in ServedCached :
           (/\ r1.key = r2.key /\ r1.idx = r2.idx
            /\ Provider(r1.ctx) = Provider(r2.ctx)
            /\ TypeOf(r1.key, r1.idx) = "Singleton") => r1.inst = r2.inst

\* The keys for which getService selects a registration of the lifetime.
KeysOf(lifetime) ==
    {k \in DOMAIN _factories : SelectedType(k) = lifetime}

\* C16: concurrent first lookups of one Singleton key through different
\* scopes and through the provider construct exactly one instance, cached in
\* the root provider's table, and every caller observes that instance, while
\* each scope gets exactly one instance of its own for every Scoped key.
C16_CrossScopeSingleton ==
    /\ \A k \in KeysOf("Singleton") :
           LET i == Len(_factories[k]) IN
           /\ Builders(k, i) \subseteq Providers
           /\ \A p \in Providers : Calls(<<p, k, i>>) <= 1
           /\ \A r1, r2 \in Singles :
                  (/\ r1.key = k /\ r2.key = k
                   /\ Provider(r1.prov) = Provider(r2.prov)) =>
                      r1.val.inst = r2.val.inst
           /\ \A r \in ServedCached :
                  (r.key = k /\ r.idx = i) => r.owner = Provider(r.ctx)
           /\ \A s \in Scopes : \A ki \in FilledSlots(s) : ki # <<k, i>>
    /\ \A k \in KeysOf("Scoped") : \A s \in Scopes :
           LET i == Len(_factories[k]) IN
           /\ Calls(<<s, k, i>>) <= 1
           /\ \A r \in Singles :
                  (r.key = k /\ r.prov = s) =>
                      r.val.inst = Address(s, k, i, 1)

\* Every constructor parameter of every registration is registered, so no
\* factory fails; the registries of the model have no dependency cycles.
EveryDependencyRegistered ==
    \A k \in DOMAIN _factories : \A i \in DOMAIN _factories[k] :
        \A j \in DOMAIN _factories[k][i].deps :
            _factories[k][i].deps[j].key \in DOMAIN _factories

\* C17: if the dependency graph is acyclic and no factory fails, every
\* getService or getServices call of every thread eventually returns, under
\* any interleaving.
C17_EveryCallReturns ==
    \A t \in Threads : (EveryDependencyRegistered /\ ~Idle(t)) ~> Idle(t)

\* A thread lost the claim of a slot and waits on its future while the
\* thread that claimed it is still inside the factory.
C17_Witness ==
    \E t \in Threads :
        /\ InStatic(t, "get")
        /\ EveryDependencyRegistered
        /\ ~FutureReady(SlotAt(Top(t).owner, Top(t).key, Top(t).idx))
        /\ Constructing(Top(t).owner, Top(t).key, Top(t).idx)

\* A step of the destructor of scope s.
ScopeTeardown(s) == DestroyBegin(s) \/ PopBack(s) \/ DestroyEnd(s)

\* The objects destroyed in this step.
NewlyDestroyed ==
    {destroyed'[i] : i \in (Len(destroyed) + 1)..Len(destroyed')}

\* C18: destroying a scope destroys only instances recorded in that scope's
\* own log and leaves the table and the log of the parent provider (and of
\* the other scopes) unchanged; no instance the provider caches is destroyed
\* while the provider is alive, so it keeps returning the same singletons.
C18_ScopeTeardownLeavesParent ==
    /\ [][\A s \in Scopes :
            ScopeTeardown(s) =>
                /\ \A o \in Owners \ {s} :
                       /\ _instances'[o] = _instances[o]
                       /\ _initializationOrder'[o] = _initializationOrder[o]
                /\ \A a \in NewlyDestroyed :
                       \E i \in DOMAIN teardownLog'[s] :
                           teardownLog'[s][i].inst = a]_vars
    /\ [](\A a \in DOMAIN heap :
              (OwnerOf(a) \in Providers /\ IsDestroyed(a)) =>
                  alive[OwnerOf(a)] # "alive")

\* A scope that cached an instance of its own was destroyed; the provider is
\* alive, still holds the singleton in its log and returned it.
C18_Witness ==
    \E s \in Scopes : \E r \in Singles :
        /\ alive[s] = "destroyed"
        /\ Len(teardownLog[s]) >= 1
        /\ Len(destroyed) = Len(teardownLog[s])
        /\ alive[Root] = "alive"
        /\ r.prov = Root
        /\ SelectedType(r.key) = "Singleton"
        /\ InLog(_initializationOrder, r.val.inst)

\* C19: two providers built from the same collection never share a Singleton
\* instance created from a type or factory registration: what one provider
\* returns differs from what the other returns, and destroying one provider
\* leaves the instances of the other alive.
C19_ProvidersShareNoSingleton ==
    /\ \A r1, r2 \in Singles :
           (/\ r1.key = r2.key
            /\ SelectedType(r1.key) = "Singleton"
            /\ Provider(r1.prov) # Provider(r2.prov)
            /\ ~Registered(r1.val.inst)) => r1.val.inst # r2.val.inst
    /\ \A a \in DOMAIN heap :
           (OwnerOf(a) # NoOwner /\ IsDestroyed(a)) =>
               alive[OwnerOf(a)] # "alive"

\* Both providers returned their Singleton; the first provider has been
\* destroyed with its instance, the second is alive and its instance too.
C19_Witness ==
    \E r1, r2 \in Singles :
        /\ r1.prov = Root /\ r2.prov = Second
        /\ r1.key = r2.key
        /\ ~Registered(r1.val.inst)
        /\ alive[Root] = "destroyed" /\ IsDestroyed(r1.val.inst)
        /\ alive[Second] = "alive" /\ ~IsDestroyed(r2.val.inst)

\* C20: after build() a provider's registry never changes: no lookup, scope
\* creation, scope destruction or later registration in the collection adds,
\* removes or reorders its descriptors, and a registration added to the
\* collection afterwards is not visible to lookups on the built provider or
\* its scopes.
C20_RegistrySealedAtBuild ==
    /\ [][_factories' = _factories]_vars
    /\ [](\A r \in BagToSet(returned) :
              IF r.key \in DOMAIN _factories
              THEN r.all => Len(r.val.elems) <= Len(_factories[r.key])
              ELSE r.val = NotFound(r.all))

\* Client code registered the missing type in the collection after build();
\* a lookup of it on a scope of the provider found nothing.
C20_Witness ==
    /\ Unregistered \in DOMAIN registrations
    /\ Unregistered \notin DOMAIN _factories
    /\ \E r \in Misses : r.prov \in Scopes /\ r.key = Unregistered

\* Some provider built from the collection still exists (its destructor has
\* not finished).
ProviderExists == \E p \in Providers : alive[p] \in {"alive", "destroying"}

\* C21: a resource captured by a registered factory closure stays alive for
\* as long as the collection or any provider built from it exists, even
\* after the code that registered the factory has released its own reference.
C21_CapturedResourceAlive ==
    \A a \in ExistingObjects(_factories) :
        IsDestroyed(a) => ~collection /\ ~ProviderExists

\* The collection and the registering code's reference are gone, a provider
\* is being torn down after it served the captured resource, its log already
\* popped, and the resource is still alive.
C21_Witness ==
    /\ ~collection
    /\ \E a \in ExistingObjects(_factories) :
        /\ ~IsDestroyed(a)
        /\ \E r \in BagToSet(served) : r.inst = a
        /\ \E p \in Providers :
            /\ alive[p] = "destroying"
            /\ InTeardownLog(p, a)
            /\ ~InLog(_initializationOrder, a)

\* This step changes the table or the log of owner o.
Touched(o) ==
    \/ _instances'[o] # _instances[o]
    \/ _initializationOrder'[o] # _initializationOrder[o]

\* This step is a statement of a lookup of thread t.
Stepping(t) == stack'[t] # stack[t]

\* The provider or scope on which the client of thread t made the lookup
\* this step belongs to.
Through(t) == IF Idle(t) THEN stack'[t][1].ctx ELSE stack[t][1].ctx

\* C22: a lookup made through scope S1 never adds an entry to, or changes,
\* the table or completion-order log of a different scope S2, and a lookup
\* made through the root provider never changes any scope's table or log.
C22_LookupsLeaveOtherScopes ==
    [][\A t \in Threads :
           Stepping(t) => \A s \in Scopes \ {Through(t)} : ~Touched(s)]_vars

\* Lookups through the provider and through one scope have filled slots of
\* both while a second scope lives with an empty table and an empty log.
C22_Witness ==
    \E s1, s2 \in Scopes :
        /\ s1 # s2
        /\ alive[s1] = "alive" /\ alive[s2] = "alive"
        /\ FilledSlots(s1) # {} /\ _initializationOrder[s1] # <<>>
        /\ FilledSlots(Provider(s1)) # {}
        /\ \E r \in BagToSet(returned) : r.prov = s1
        /\ \E r \in BagToSet(returned) : r.prov = Provider(s1)
        /\ _instances[s2] = EmptyMap /\ _initializationOrder[s2] = <<>>

\* The factory of descriptor idx of key fails: it casts the empty any of an
\* unregistered argument type, or the factory of one of its arguments fails.
RECURSIVE Fails(_, _)
Fails(key, idx) ==
    \E j \in DOMAIN Desc(key, idx).deps :
        LET dep == Desc(key, idx).deps[j] IN
        IF ~Find(dep.key) THEN ~dep.all
        ELSE IF dep.all
             THEN \E i \in DOMAIN _factories[dep.key] : Fails(dep.key, i)
             ELSE Fails(dep.key, Len(_factories[dep.key]))

\* The lookup behind result r had to run a factory that fails.
FailingLookup(r) ==
    /\ Find(r.key)
    /\ IF r.all THEN \E i \in DOMAIN _factories[r.key] : Fails(r.key, i)
       ELSE Fails(r.key, Len(_factories[r.key]))

\* C23: when the factory of a requested service (or of one of its
\* dependencies) fails, the lookup call that invoked the factory reports
\* that same failure to its caller; it is not swallowed and not turned into
\* an absent result.  No such lookup returns anything but the failure, and
\* no object is ever made by a factory that fails.
C23_FailureReported ==
    /\ \A r \in BagToSet(returned) :
           FailingLookup(r) => r.val = Exception("bad_any_cast")
    /\ \A a \in DOMAIN heap :
           Find(MadeBy(a)[1]) => ~Fails(MadeBy(a)[1], MadeBy(a)[2])

\* One client got the failure of the factory it asked for, another the
\* failure of the factory of a dependency of the service it asked for.
C23_Witness ==
    \E r1, r2 \in BagToSet(returned) :
        /\ FailingLookup(r1) /\ FailingLookup(r2)
        /\ r1.val = Exception("bad_any_cast")
        /\ r2.val = Exception("bad_any_cast")
        /\ \E j \in DOMAIN Desc(r1.key, 1).deps : ~Find(Desc(r1.key, 1).deps[j].key)
        /\ \A j \in DOMAIN Desc(r2.key, 1).deps : Find(Desc(r2.key, 1).deps[j].key)

\* The rank of instance a among the slots of owner o that became ready.
ReadyAt(o, a) == CHOOSE i \in DOMAIN readyOrder[o] : readyOrder[o][i] = a

\* The log of owner o lists its instances in the order they became ready.
InReadyOrder(o) ==
    \A i, j \in DOMAIN _initializationOrder[o] :
        i < j => ReadyAt(o, _initializationOrder[o][i].inst)
                     < ReadyAt(o, _initializationOrder[o][j].inst)

\* This step leaves the log of owner o alone or appends to it.
Grows(o) ==
    /\ Len(_initializationOrder'[o]) \in
           {Len(_initializationOrder[o]), Len(_initializationOrder[o]) + 1}
    /\ SubSeq(_initializationOrder'[o], 1, Len(_initializationOrder[o]))
           = _initializationOrder[o]

\* C24: within one owner, the order of instances in the completion-order log
\* equals the order in which their slots became Ready (were published),
\* under any interleaving of threads, and the log of a living owner only
\* ever grows by appending.
C24_LogInReadyOrder ==
    /\ [](\A o \in Owners : InReadyOrder(o))
    /\ [][\A o \in Owners : alive'[o] = "alive" => Grows(o)]_vars

\* Frame i of thread t is the static call of a getService(type), not of a
\* turn of a getServices loop.
FromGetService(t, i) ==
    /\ stack[t][i].fn = "getService"
    /\ i > 1 => stack[t][i - 1].fn # "getServices"

\* The provider or scope whose getService(type) made frame i of thread t:
\* the one client code called, or the context of the factory that called.
CalledOn(t, i) == IF i = 1 THEN stack[t][1].ctx ELSE stack[t][i - 1].ctx

FromGetServices(t, i) ==
    /\ i > 1
    /\ stack[t][i].fn = "getService"
    /\ stack[t][i - 1].fn = "getServices"

\* The owner that caches descriptor idx of key when scope asks for all
\* services of key.
ElementOwner(scope, key, idx) ==
    CASE TypeOf(key, idx) = "Scoped" -> scope
      [] TypeOf(key, idx) = "Singleton" -> Provider(scope)
      [] OTHER -> NoOwner

\* C26: scope.getServices(key) routes each descriptor by that descriptor's
\* own lifetime: Scoped descriptors are cached in the scope's table,
\* Singleton descriptors in the parent provider's table, every factory
\* receives the scope as resolution context, and the results are in
\* registration order.
C26_ScopeRoutesEachDescriptor ==
    /\ \A t \in Threads : \A i \in DOMAIN stack[t] :
           FromGetServices(t, i) /\ stack[t][i - 1].ctx \in Scopes =>
               LET f == stack[t][i]
                   loop == stack[t][i - 1]
               IN /\ f.key = loop.key
                  /\ f.idx = loop.idx - 1
                  /\ Len(loop.got) = f.idx - 1
                  /\ f.ctx = loop.ctx
                  /\ Cached(Desc(f.key, f.idx)) =>
                         f.owner = ElementOwner(loop.ctx, f.key, f.idx)
    /\ \A r \in Multis :
           r.prov \in Scopes =>
               \A i \in DOMAIN r.val.elems :
                   LET a == r.val.elems[i].inst IN
                   IF Registered(a)
                   THEN Desc(r.key, i).existing = a
                   ELSE /\ MadeBy(a) = <<r.key, i>>
                        /\ OwnerOf(a) = ElementOwner(r.prov, r.key, i)
                        /\ TypeOf(r.key, i) # "Singleton" => heap[a].ctx = r.prov

\* A scope returned the services of a key with a Scoped and a Singleton
\* descriptor: the Scoped element from its own table, the Singleton element
\* from its parent's.
C26_Witness ==
    \E r \in Multis :
        /\ r.prov \in Scopes
        /\ \E i, j \in DOMAIN r.val.elems :
            /\ i < j
            /\ {TypeOf(r.key, i), TypeOf(r.key, j)} = {"Scoped", "Singleton"}
            /\ \A k \in {i, j} :
                /\ OwnerOf(r.val.elems[k].inst) = ElementOwner(r.prov, r.key, k)
                /\ HasSlot(ElementOwner(r.prov, r.key, k), r.key, k)
                /\ SlotAt(ElementOwner(r.prov, r.key, k), r.key, k).value.inst
                       = r.val.elems[k].inst

\* The locks thread t holds: the table lock or the log lock of an owner.
HeldBy(t) ==
    {<<"_instancesMutex", o>> : o \in {o \in Owners : _instancesMutex[o] = t}}
        \cup {<<"_initializationOrderMutex", o>> :
                  o \in {o \in Owners : _initializationOrderMutex[o] = t}}

\* C27: no thread holds an owner's table lock or completion-order-log lock
\* while a factory runs, and no thread ever holds two of these locks at the
\* same time; the table lock is released before any slot is claimed or read.
\* A thread that holds a lock is between the lock and the unlock of its
\* innermost static getService, where no factory is called and no slot is
\* claimed, and the lock is the one of that call's owner.
C27_LocksAreShortHeld ==
    \A t \in Threads :
        /\ Cardinality(HeldBy(t)) <= 1
        /\ Idle(t) => HeldBy(t) = {}
        /\ ~Idle(t) =>
            /\ Top(t).fn = "getServices" => HeldBy(t) = {}
            /\ Top(t).fn = "getService" =>
                CASE Top(t).pc = "emplace" ->
                         HeldBy(t) = {<<"_instancesMutex", Top(t).owner>>}
                  [] Top(t).pc = "append" ->
                         HeldBy(t) = {<<"_initializationOrderMutex", Top(t).owner>>}
                  [] OTHER -> HeldBy(t) = {}

\* A thread holds the table lock inside the lookup its factory made, beside
\* a thread that runs a factory or holds a log lock.
C27_Witness ==
    \E t1, t2 \in Threads :
        /\ t1 # t2
        /\ Len(stack[t1]) >= 2
        /\ stack[t1][Len(stack[t1]) - 1].pc = "create"
        /\ InStatic(t1, "emplace")
        /\ HeldBy(t1) = {<<"_instancesMutex", Top(t1).owner>>}
        /\ InFactory(t2) \/ (InStatic(t2, "append") /\ HeldBy(t2) # {})

\* The instances the winners of the slots of owner o have published.
PublishedIn(o) == {readyOrder[o][i] : i \in DOMAIN readyOrder[o]}

\* The served lookups that came from slot (o, key, idx).
ServedFrom(o, key, idx) ==
    {r \in ServedCached : r.owner = o /\ r.key = key /\ r.idx = idx}

\* C28: no lookup reads or returns a slot's instance before the winning
\* thread has published it: a thread that lost the claim race obtains the
\* instance only after the slot is Ready, and the instance it obtains is the
\* one the winner published.  Every step that reads a slot's future, for the
\* log or for the result, finds the slot ready, and what it hands on is the
\* instance the winner's set_value stored.
C28_ReadsFollowPublication ==
    [][\A t \in Threads :
           Stepping(t) /\ (InStatic(t, "get") \/ InStatic(t, "append")) =>
               LET f == Top(t)
                   slot == SlotAt(f.owner, f.key, f.idx)
               IN /\ FutureReady(slot)
                  /\ slot.value.inst \in PublishedIn(f.owner)
                  /\ InStatic(t, "append") =>
                         _initializationOrder'[f.owner]
                             = Append(_initializationOrder[f.owner], slot.value)
                  /\ InStatic(t, "get") =>
                         /\ \E r \in BagToSet(served') :
                                /\ CopiesIn(r, served') = CopiesIn(r, served) + 1
                                /\ r.owner = f.owner /\ r.key = f.key
                                /\ r.idx = f.idx
                                /\ r.inst = slot.value.inst
                         /\ \A r \in ServedFrom(f.owner, f.key, f.idx) :
                                r.inst = slot.value.inst]_vars

\* A thread that lost the claim race of a slot has been served the published
\* instance while the winner is still between its set_value and its return.
C28_Witness ==
    \E t \in Threads :
        /\ ~Idle(t)
        /\ Top(t).fn = "getService"
        /\ Top(t).pc \in {"orderLock", "append", "get"}
        /\ Top(t).call = 1
        /\ \E r \in ServedFrom(Top(t).owner, Top(t).key, Top(t).idx) :
               r.inst = SlotAt(Top(t).owner, Top(t).key, Top(t).idx).value.inst

\* This step is the first statement of the destructor of owner o.
Clearing(o) == alive[o] = "alive" /\ alive'[o] = "destroying"

\* This step is a turn of the destructor's loop over the log of owner o.
Draining(o) ==
    /\ alive[o] = "destroying"
    /\ _initializationOrder'[o] # _initializationOrder[o]

\* C29 as stated: provider destruction first drains the completion-order log
\* back-to-front, destroying each instance, and only afterwards clears the
\* instance table: the table is cleared only once the log is empty.
C29_DrainThenClear ==
    [][\A o \in Owners :
           (_instances'[o] # _instances[o] /\ _instances'[o] = EmptyMap)
               => _initializationOrder[o] = <<>>]_vars

\* C29, amended: destruction of a provider or scope first clears the
\* instance table, which destroys no instance the log holds and leaves the
\* log as it is; the table stays empty while the log is then drained
\* back-to-front, and each turn destroys the instance it pops and nothing
\* else, unless the instance is an existing one client code registered.
C29_ClearThenDrain ==
    /\ [][\A o \in Owners :
            /\ Clearing(o) =>
                /\ _instances'[o] = EmptyMap
                /\ _initializationOrder'[o] = _initializationOrder[o]
                /\ \A a \in NewlyDestroyed : ~InLog(_initializationOrder, a)
            /\ Draining(o) =>
                LET log == _initializationOrder[o]
                    last == log[Len(log)].inst
                IN /\ log # <<>>
                   /\ _initializationOrder'[o] = SubSeq(log, 1, Len(log) - 1)
                   /\ NewlyDestroyed \subseteq {last}
                   /\ ~Registered(last) => NewlyDestroyed = {last}]_vars
    /\ [](\A o \in Owners :
              alive[o] \in {"destroying", "destroyed"} =>
                  _instances[o] = EmptyMap)

\* A destructor has cleared a table that held instances and is in the middle
\* of its loop: one instance popped and destroyed, others still in the log.
C29_Witness ==
    \E o \in Owners :
        /\ alive[o] = "destroying"
        /\ Len(teardownLog[o]) >= 2
        /\ _initializationOrder[o] # <<>>
        /\ Len(_initializationOrder[o]) < Len(teardownLog[o])
        /\ _instances[o] = EmptyMap
        /\ \E a \in DOMAIN heap : IsDestroyed(a) /\ InTeardownLog(o, a)
        /\ \E a \in DOMAIN heap :
               ~IsDestroyed(a) /\ InLog(_initializationOrder, a)

\* The state of a slot: Empty (nobody claimed it), Claimed (initialized is
\* set, the promise has no value yet) or Ready (the promise has its value).
Phase(slot) ==
    CASE ~slot.initialized /\ slot.value = Absent -> "Empty"
      [] slot.initialized /\ slot.value = Absent -> "Claimed"
      [] slot.initialized /\ slot.value # Absent -> "Ready"
      [] OTHER -> "Invalid"

\* The slots of the table of owner o, as <<key, index>>.
SlotsOf(tables, o) ==
    UNION {{<<k, i>> : i \in DOMAIN tables[o][k]} : k \in DOMAIN tables[o]}

\* The threads that take this step as the winner of slot (o, key, idx):
\* their innermost call enters the factory with a call number.
Claimants(o, key, idx) ==
    {t \in Threads :
        /\ InStatic(t, "cas")
        /\ Top(t).owner = o /\ Top(t).key = key /\ Top(t).idx = idx
        /\ stack'[t] # stack[t]
        /\ stack'[t][Len(stack'[t])].pc = "create"}

\* C30: a slot only moves Empty -> Claimed -> Ready and never backwards;
\* exactly one thread performs the Empty -> Claimed transition, and once a
\* slot is Ready its published instance never changes while the owner lives.
C30_SlotLifeCycle ==
    /\ [][\A o \in Owners :
            alive'[o] = "alive" =>
                /\ SlotsOf(_instances, o) \subseteq SlotsOf(_instances', o)
                /\ \A ki \in SlotsOf(_instances', o) \ SlotsOf(_instances, o) :
                       Phase(_instances'[o][ki[1]][ki[2]]) = "Empty"
                /\ \A ki \in SlotsOf(_instances, o) :
                       LET old == _instances[o][ki[1]][ki[2]]
                           new == _instances'[o][ki[1]][ki[2]]
                       IN /\ <<Phase(old), Phase(new)>> \in
                                 {<<"Empty", "Empty">>, <<"Empty", "Claimed">>,
                                  <<"Claimed", "Claimed">>, <<"Claimed", "Ready">>,
                                  <<"Ready", "Ready">>}
                          /\ Phase(old) = "Ready" => new = old
                          /\ (Phase(old) = "Empty" /\ Phase(new) = "Claimed") =>
                                 /\ Cardinality(Claimants(o, ki[1], ki[2])) = 1
                                 /\ factoryCalls'[<<o, ki[1], ki[2]>>] = 1
                          /\ Phase(new) = Phase(old) =>
                                 Claimants(o, ki[1], ki[2]) = {}]_vars
    /\ [](\A o \in Owners : \A ki \in SlotsOf(_instances, o) :
              /\ Phase(_instances[o][ki[1]][ki[2]]) # "Invalid"
              /\ Calls(<<o, ki[1], ki[2]>>) =
                     IF Phase(_instances[o][ki[1]][ki[2]]) = "Empty" THEN 0 ELSE 1)

\* One table of a living owner holds an Empty, a Claimed and a Ready slot.
C30_Witness ==
    \E o \in Owners :
        /\ alive[o] = "alive"
        /\ {Phase(_instances[o][ki[1]][ki[2]]) : ki \in SlotsOf(_instances, o)}
               = {"Empty", "Claimed", "Ready"}

\* The results of single lookups of a key whose selected registration is an
\* existing instance.
ExistingSingles ==
    {r \in Singles :
        Find(r.key) /\ Desc(r.key, Len(_factories[r.key])).existing # Null}

\* C31: for a Singleton registered with an existing instance, every lookup
\* returns that very instance, all providers built from the collection
\* return the same instance, and destroying a provider does not destroy the
\* instance while the collection (or another provider) still exists.
C31_ExistingInstanceShared ==
    /\ \A r \in ExistingSingles :
           r.val.inst = Desc(r.key, Len(_factories[r.key])).existing
    /\ \A r \in Multis : \A i \in DOMAIN r.val.elems :
           Desc(r.key, i).existing # Null =>
               r.val.elems[i].inst = Desc(r.key, i).existing
    /\ \A r1, r2 \in ExistingSingles :
           r1.key = r2.key => r1.val.inst = r2.val.inst
    /\ \A p \in Providers : \A a \in ExistingObjects(_factories) :
           (/\ alive[p] = "destroyed"
            /\ collection \/ \E p2 \in Providers \ {p} : alive[p2] = "alive")
               => ~IsDestroyed(a)

\* Two providers of one collection returned the existing instance; the first
\* was destroyed after it had logged the instance, the second is alive, and
\* the instance is alive.
C31_Witness ==
    \E r1, r2 \in ExistingSingles :
        /\ r1.key = r2.key
        /\ Provider(r1.prov) = Root /\ Provider(r2.prov) = Second
        /\ r1.val.inst = r2.val.inst
        /\ alive[Root] = "destroyed"
        /\ InTeardownLog(Root, r1.val.inst)
        /\ alive[Second] = "alive"
        /\ ~IsDestroyed(r1.val.inst)

\* The instances of the Ready slots of owner o.
ReadyInstances(o) ==
    {_instances[o][ki[1]][ki[2]].value.inst : ki \in FilledSlots(o)}

\* How often instance a occurs in the log of owner o.
TimesLogged(o, a) ==
    Cardinality({i \in DOMAIN _initializationOrder[o] :
                     _initializationOrder[o][i].inst = a})

\* The log of owner o holds no instance twice, only instances of Ready slots
\* of o whose descriptor is Singleton or Scoped, and, when no lookup is in
\* progress, the instance of every Ready slot of o.
LogMatchesTable(o) ==
    /\ \A i \in DOMAIN _initializationOrder[o] :
           LET a == _initializationOrder[o][i].inst IN
           /\ TimesLogged(o, a) = 1
           /\ a \in ReadyInstances(o)
           /\ \E ki \in FilledSlots(o) :
                  /\ _instances[o][ki[1]][ki[2]].value.inst = a
                  /\ Cached(Desc(ki[1], ki[2]))
           /\ OwnerOf(a) \in {o, NoOwner}
           /\ OwnerOf(a) = NoOwner => Registered(a)
    /\ (\A t \in Threads : Idle(t)) =>
           \A a \in ReadyInstances(o) : TimesLogged(o, a) = 1

MissReturned ==
    \E r \in BagToSet(returned') :
        /\ r.key \notin DOMAIN _factories
        /\ CopiesIn(r, returned') = CopiesIn(r, returned) + 1

\* C33: a lookup (single, multi or required) of an unregistered type key on
\* the provider or a scope invokes no factory and leaves every table and
\* every completion-order log unchanged, including when the required lookup
\* reports its error.
C33_MissChangesNothing ==
    [][MissReturned =>
           /\ _instances' = _instances
           /\ _initializationOrder' = _initializationOrder
           /\ readyOrder' = readyOrder
           /\ factoryCalls' = factoryCalls
           /\ heap' = heap
           /\ stack' = stack
           /\ served' = served
           /\ \A r \in BagToSet(returned') \ BagToSet(returned) :
                  r.key \notin DOMAIN _factories =>
                      /\ r.val = NotFound(r.all)
                      /\ ~r.all => GetRequiredService(r.key, r.val)
                                       = LogicError(r.key)]_vars

\* A scope with an instance in its table and its log was asked for the
\* service and for all services of a type that is not registered.
C33_Witness ==
    \E r1, r2 \in Misses :
        /\ ~r1.all /\ r2.all
        /\ r1.prov \in Scopes /\ r2.prov = r1.prov
        /\ alive[r1.prov] = "alive"
        /\ FilledSlots(r1.prov) # {}
        /\ _initializationOrder[r1.prov] # <<>>

\* The activations of the static getService that have the slot array of
\* their type key in hand.
SlotUsers ==
    {ti \in UNION {{<<t, i>> : i \in DOMAIN stack[t]} : t \in Threads} :
        /\ stack[ti[1]][ti[2]].fn = "getService"
        /\ Cached(Desc(stack[ti[1]][ti[2]].key, stack[ti[1]][ti[2]].idx))
        /\ stack[ti[1]][ti[2]].pc \in
               {"cas", "create", "orderLock", "append", "get"}}

\* C34: every registered type key has at least one descriptor, every slot
\* array created for a type key in any owner has exactly as many slots as
\* the key has descriptors, and every slot access uses an index smaller than
\* that length (so the last-descriptor index length-1 never underflows or
\* goes out of range).  Indices count from 1 here: index i stands for the
\* code's i - 1.
C34_SlotArraysMatchDescriptors ==
    /\ \A k \in DOMAIN _factories : Len(_factories[k]) >= 1
    /\ \A k \in DOMAIN registrations : Len(registrations[k]) >= 1
    /\ \A o \in Owners : \A k \in DOMAIN _instances[o] :
           /\ k \in DOMAIN _factories
           /\ DOMAIN _instances[o][k] = 1..Len(_factories[k])
    /\ \A t \in Threads : \A i \in DOMAIN stack[t] :
           LET f == stack[t][i] IN
           /\ f.key \in DOMAIN _factories
           /\ f.fn = "getService" => f.idx \in 1..Len(_factories[f.key])
           /\ f.fn = "getServices" => f.idx \in 1..(Len(_factories[f.key]) + 1)
    /\ \A ti \in SlotUsers :
           LET f == stack[ti[1]][ti[2]] IN
           /\ f.key \in DOMAIN _instances[f.owner]
           /\ f.idx \in DOMAIN _instances[f.owner][f.key]

\* A lookup is at the last slot of the three-slot array of a type key with
\* three descriptors.
C34_Witness ==
    \E ti \in SlotUsers :
        LET f == stack[ti[1]][ti[2]] IN
        /\ Len(_factories[f.key]) = 3
        /\ f.idx = 3
        /\ DOMAIN _instances[f.owner][f.key] = 1..3
        /\ FromGetService(ti[1], ti[2])

====
